---- MODULE Spec2Model ----
(***************************************************************************)
(* Model of nash_executor.py: one run of main(), from the dispatch on the  *)
(* argument count to the exit of the process, and the pure field mapper    *)
(* build_properties on its own.                                            *)
(*                                                                         *)
(* A Python str is a sequence of one-character strings.  An Optional[str]  *)
(* is a sequence of length 0 (None) or 1 (the string).                     *)
(***************************************************************************)
EXTENDS Integers, Sequences, FiniteSets

VARIABLES
    pc,             \* position of the run in main / create_nash_page
    argv,           \* sys.argv[1:], the positional arguments
    env,            \* os.environ after load_dotenv()
    title, source, type_detected, categorie, statut, contenu,  \* locals of main
    config,         \* what load_env returned: <<notion_token, database_id>>
    properties,     \* the field mapping built by build_properties
    envRead,        \* load_env has read the two variables
    jsonParsed,     \* json.loads has been called on sys.argv[1]
    prompts,        \* number of input() prompts issued
    requests,       \* the POSTs issued, each [url, headers, json]
    resp,           \* the response of requests.post
    output,         \* the lines printed on standard output
    returned,       \* what create_nash_page returned to main
    unhandled,      \* the run ended by an exception nobody caught
    exitCode        \* exit code of the process, Running while it runs

vars == <<pc, argv, env, title, source, type_detected, categorie, statut,
          contenu, config, properties, envRead, jsonParsed, prompts, requests, resp,
          output, returned, unhandled, exitCode>>

-----------------------------------------------------------------------------
(* Bounds of the model *)

MaxArgs == 2
MaxRawLen == 2

-----------------------------------------------------------------------------
(* Python values *)

None == <<>>
Some(s) == <<s>>

\* truthiness of an Optional[str]: None and "" are falsy
Truthy(v) == IF v = None THEN FALSE ELSE v[1] # <<>>

\* Python's  v or w
PyOr(v, w) == IF Truthy(v) THEN v ELSE w

SansTitre == <<"S", "a", "n", "s", " ", "t", "i", "t", "r", "e">>
Inconnu == <<"i", "n", "c", "o", "n", "n", "u">>
Mail == <<"M", "a", "i", "l">>
Test == <<"T", "e", "s", "t">>

Whitespace == {" "}

RECURSIVE lstrip(_)
lstrip(s) == IF s # <<>> /\ Head(s) \in Whitespace THEN lstrip(Tail(s)) ELSE s

RECURSIVE rstrip(_)
rstrip(s) ==
    IF s # <<>> /\ s[Len(s)] \in Whitespace
    THEN rstrip(SubSeq(s, 1, Len(s) - 1))
    ELSE s

\* str.strip()
strip(s) == rstrip(lstrip(s))

-----------------------------------------------------------------------------
(* Input domains *)

RECURSIVE SeqsUpTo(_, _)
SeqsUpTo(S, n) ==
    IF n = 0 THEN {<<>>}
    ELSE LET shorter == SeqsUpTo(S, n - 1)
         IN  shorter \cup {Append(s, c) : s \in shorter, c \in S}

\* what the operator may type at a prompt
RawAnswers == SeqsUpTo({" ", "a"}, MaxRawLen)

\* values of the keys "title" and "source" of the JSON object (None: key absent)
NameValues == {None, Some(<<>>), Some(Test), Some(Mail)}
\* values of the four other keys
FieldValues == {None, Some(<<>>), Some(<<"x">>)}

JsonObjects ==
    [title : NameValues, source : NameValues, type_detected : FieldValues,
     categorie : FieldValues, statut : FieldValues, contenu : FieldValues]

EmptyObject ==
    [title |-> None, source |-> None, type_detected |-> None,
     categorie |-> None, statut |-> None, contenu |-> None]

\* an argument string: not JSON, JSON that is no object, or a JSON object
InvalidArg == [kind |-> "invalid", obj |-> EmptyObject]
NonObjectArg == [kind |-> "nonobject", obj |-> EmptyObject]
ObjectArgs == {[kind |-> "object", obj |-> o] : o \in JsonObjects}
ArgValues == {InvalidArg, NonObjectArg} \cup ObjectArgs

FirstArgsOfMany ==
    {InvalidArg,
     [kind |-> "object", obj |-> [EmptyObject EXCEPT !.title = Some(Test)]]}

\* command lines: none, one argument, or several (the later ones never read)
ArgLists ==
    {<<>>} \cup {<<a>> : a \in ArgValues}
    \cup {[i \in 1..n |-> IF i = 1 THEN a ELSE InvalidArg] :
            a \in FirstArgsOfMany, n \in 2..MaxArgs}

EnvValues == {None, Some(<<>>), Some(<<"k">>)}
Environments == [NOTION_TOKEN : EnvValues, NOTION_DATABASE_ID : EnvValues]

StatusCodes == {199, 200, 204, 299, 300, 401, 500}
\* response bodies: not JSON, a JSON list, a JSON object without and with "id"
Bodies ==
    {[kind |-> "text", id |-> None], [kind |-> "list", id |-> None],
     [kind |-> "object", id |-> None], [kind |-> "object", id |-> Some(<<"p">>)]}
Responses == [status_code : StatusCodes, body : Bodies]
NoResponse == [status_code |-> 0, body |-> [kind |-> "text", id |-> None]]

Running == -1

-----------------------------------------------------------------------------
(* build_properties *)

TitleKey == "Source"
TypeKey == "Type detecte"
CategorieKey == "Categorie suggeree"
StatutKey == "Statut"
ContenuKey == "Contenu"

\* the title column without the fallback on source:  title or "Sans titre"
TitleContentNoSource(t, s) == PyOr(t, Some(SansTitre))[1]

\* content of the title column:  title or (source or "Sans titre")
TitleContent(t, s) == PyOr(t, PyOr(s, Some(SansTitre)))[1]

\* the guard written  if x is not None:  which lets "" through
EmittedIfNotNone(v) == v # None

\* the condition  if x:  that guards each optional column
Emitted(v) == Truthy(v)

Column(k, t, s, ty, ca, st, co) ==
    CASE k = TitleKey -> [type |-> "title", value |-> TitleContent(t, s)]
      [] k = TypeKey -> [type |-> "select", value |-> ty[1]]
      [] k = CategorieKey -> [type |-> "select", value |-> ca[1]]
      [] k = StatutKey -> [type |-> "select", value |-> st[1]]
      [] k = ContenuKey -> [type |-> "rich_text", value |-> co[1]]

\* build_properties without its last block, the Contenu column
build_properties_no_contenu(t, s, ty, ca, st, co) ==
    LET keys == {TitleKey}
                \cup (IF Emitted(ty) THEN {TypeKey} ELSE {})
                \cup (IF Emitted(ca) THEN {CategorieKey} ELSE {})
                \cup (IF Emitted(st) THEN {StatutKey} ELSE {})
    IN  [k \in keys |-> Column(k, t, s, ty, ca, st, co)]

build_properties(t, s, ty, ca, st, co) ==
    LET keys == {TitleKey}
                \cup (IF Emitted(ty) THEN {TypeKey} ELSE {})
                \cup (IF Emitted(ca) THEN {CategorieKey} ELSE {})
                \cup (IF Emitted(st) THEN {StatutKey} ELSE {})
                \cup (IF Emitted(co) THEN {ContenuKey} ELSE {})
    IN  [k \in keys |-> Column(k, t, s, ty, ca, st, co)]

NoProperties == [k \in {} |-> [type |-> "title", value |-> <<>>]]

-----------------------------------------------------------------------------
(* Output lines *)

Line(m, a) == [msg |-> m, arg |-> a]
Printed(m) == \E i \in 1..Len(output) : output[i].msg = m

-----------------------------------------------------------------------------
(* Initial state of a run of the program *)

Init ==
    /\ pc = "main"
    /\ argv \in ArgLists
    /\ env \in Environments
    /\ title = None /\ source = None /\ type_detected = None
    /\ categorie = None /\ statut = None /\ contenu = None
    /\ config = <<None, None>>
    /\ properties = NoProperties
    /\ envRead = FALSE
    /\ jsonParsed = FALSE
    /\ prompts = 0
    /\ requests = <<>>
    /\ resp = NoResponse
    /\ output = <<>>
    /\ returned = None
    /\ unhandled = FALSE
    /\ exitCode = Running

\* sys.exit(code)
Exit(code) == pc' = "done" /\ exitCode' = code /\ unhandled' = FALSE
\* an exception leaves main: traceback, exit status 1
Raise == pc' = "done" /\ exitCode' = 1 /\ unhandled' = TRUE

-----------------------------------------------------------------------------
(* main: acquisition of the six fields *)

UsageLine == Line("usage", <<>>)

\* data.get(key): None when the key is absent
Get(data, key) == data[key]

\* lines 172-177: the six fields of the parsed object
JsonLoaded(data) ==
    /\ title' = PyOr(Get(data, "title"), Some(SansTitre))
    /\ source' = Get(data, "source")
    /\ type_detected' = Get(data, "type_detected")
    /\ categorie' = Get(data, "categorie")
    /\ statut' = Get(data, "statut")
    /\ contenu' = Get(data, "contenu")
    /\ pc' = "create"
    /\ UNCHANGED <<output, unhandled, exitCode>>

\* a handler that swallows the decoding error and goes on with no fields
JsonInvalidIgnored == JsonLoaded(EmptyObject)

\* except json.JSONDecodeError: usage example, sys.exit(1)
JsonInvalid ==
    /\ output' = Append(output, UsageLine)
    /\ Exit(1)
    /\ UNCHANGED <<title, source, type_detected, categorie, statut, contenu>>

\* json.loads gave a value that is no dict: data.get raises AttributeError
JsonNotAnObject ==
    /\ Raise
    /\ UNCHANGED <<output, title, source, type_detected, categorie, statut,
                   contenu>>

\* if len(sys.argv) == 2: the JSON argument
MainJsonArg ==
    /\ pc = "main"
    /\ Len(argv) + 1 = 2
    /\ jsonParsed' = TRUE
    /\ CASE argv[1].kind = "invalid" -> JsonInvalid
         [] argv[1].kind = "nonobject" -> JsonNotAnObject
         [] argv[1].kind = "object" -> JsonLoaded(argv[1].obj)
    /\ UNCHANGED <<argv, env, config, properties, envRead, prompts, requests,
                   resp, returned>>

\* else: the interactive mode announces itself
MainInteractive ==
    /\ pc = "main"
    /\ Len(argv) + 1 # 2
    /\ output' = Append(output, Line("interactive", <<>>))
    /\ pc' = "ask_title"
    /\ UNCHANGED <<argv, env, title, source, type_detected, categorie, statut,
                   contenu, config, properties, envRead, jsonParsed, prompts,
                   requests, resp, returned, unhandled, exitCode>>

\* input(...).strip() or "Sans titre"
AnswerOrDefault(raw) == PyOr(Some(strip(raw)), Some(SansTitre))
\* input(...).strip() or None
AnswerOrNone(raw) == PyOr(Some(strip(raw)), None)

Asked(here, next) ==
    /\ pc = here
    /\ pc' = next
    /\ prompts' = prompts + 1
    /\ UNCHANGED <<argv, env, config, properties, envRead, jsonParsed,
                   requests, resp, output, returned, unhandled, exitCode>>

AskTitle ==
    /\ Asked("ask_title", "ask_source")
    /\ \E raw \in RawAnswers : title' = AnswerOrDefault(raw)
    /\ UNCHANGED <<source, type_detected, categorie, statut, contenu>>

AskSource ==
    /\ Asked("ask_source", "ask_type")
    /\ \E raw \in RawAnswers : source' = AnswerOrNone(raw)
    /\ UNCHANGED <<title, type_detected, categorie, statut, contenu>>

AskType ==
    /\ Asked("ask_type", "ask_categorie")
    /\ \E raw \in RawAnswers : type_detected' = AnswerOrNone(raw)
    /\ UNCHANGED <<title, source, categorie, statut, contenu>>

AskCategorie ==
    /\ Asked("ask_categorie", "ask_statut")
    /\ \E raw \in RawAnswers : categorie' = AnswerOrNone(raw)
    /\ UNCHANGED <<title, source, type_detected, statut, contenu>>

AskStatut ==
    /\ Asked("ask_statut", "ask_contenu")
    /\ \E raw \in RawAnswers : statut' = AnswerOrNone(raw)
    /\ UNCHANGED <<title, source, type_detected, categorie, contenu>>

AskContenu ==
    /\ Asked("ask_contenu", "create")
    /\ \E raw \in RawAnswers : contenu' = AnswerOrNone(raw)
    /\ UNCHANGED <<title, source, type_detected, categorie, statut>>

-----------------------------------------------------------------------------
(* load_env *)

\* if not notion_token or not database_id
ConfigMissing(e) == ~Truthy(e.NOTION_TOKEN) \/ ~Truthy(e.NOTION_DATABASE_ID)

\* first statement of create_nash_page: read and check the two secrets
LoadEnv ==
    /\ pc = "create"
    /\ envRead' = TRUE
    /\ IF ConfigMissing(env)
       THEN /\ output' = Append(output, Line("env_guidance", <<>>))
            /\ Exit(1)
            /\ UNCHANGED config
       ELSE /\ config' = <<env.NOTION_TOKEN, env.NOTION_DATABASE_ID>>
            /\ pc' = "post"
            /\ UNCHANGED <<output, unhandled, exitCode>>
    /\ UNCHANGED <<argv, env, title, source, type_detected, categorie, statut,
                   contenu, properties, jsonParsed, prompts, requests, resp,
                   returned>>

-----------------------------------------------------------------------------
(* create_nash_page: the request *)

Url == "https://api.notion.com/v1/pages"

Headers(token) ==
    [Authorization |-> <<"Bearer", token>>, NotionVersion |-> "2022-06-28",
     ContentType |-> "application/json"]

Payload(database_id, props) ==
    [parent |-> [database_id |-> database_id], properties |-> props]

\* lines 113-134: everything up to the call of requests.post
Prepared ==
    /\ pc = "post"
    /\ properties' = build_properties(title, source, type_detected, categorie,
                                      statut, contenu)
    /\ output' = Append(output, Line("sending", <<>>))
    /\ requests' = Append(requests,
                          [url |-> Url, headers |-> Headers(config[1][1]),
                           json |-> Payload(config[2][1], properties')])
    /\ UNCHANGED <<argv, env, title, source, type_detected, categorie, statut,
                   contenu, config, envRead, jsonParsed, prompts, returned>>

\* requests.post returns a response
SendRequest ==
    /\ Prepared
    /\ \E r \in Responses : resp' = r
    /\ pc' = "response"
    /\ UNCHANGED <<unhandled, exitCode>>

\* requests.post raises (no connectivity): nothing catches it
SendRequestFails ==
    /\ Prepared
    /\ Raise
    /\ UNCHANGED resp

-----------------------------------------------------------------------------
(* create_nash_page: the response *)

\* the range test with its upper end included
IsSuccessUpTo300(status) == status >= 200 /\ status <= 300

\* resp.status_code >= 200 and resp.status_code < 300
IsSuccess(status) == status >= 200 /\ status < 300

\* resp.json() raises when the body is not JSON
JsonFails(body) == body.kind = "text"

\* data.get("id", "inconnu")
PageId(body) == IF body.id = None THEN Inconnu ELSE body.id[1]

\* lines 138-141
Success ==
    /\ IsSuccess(resp.status_code)
    /\ IF JsonFails(resp.body) \/ resp.body.kind # "object"
       THEN /\ Raise
            /\ UNCHANGED <<output, returned>>
       ELSE /\ output' = Append(output, Line("created", PageId(resp.body)))
            /\ returned' = Some(resp.body)
            /\ pc' = "return"
            /\ UNCHANGED <<unhandled, exitCode>>

\* lines 143-149
Failure ==
    /\ ~IsSuccess(resp.status_code)
    /\ output' = output \o
            << Line("error", <<>>),
               Line("http_code", resp.status_code),
               IF JsonFails(resp.body)
               THEN Line("raw", resp.body)
               ELSE Line("details", resp.body) >>
    /\ Exit(1)
    /\ UNCHANGED returned

HandleResponse ==
    /\ pc = "response"
    /\ (Success \/ Failure)
    /\ UNCHANGED <<argv, env, title, source, type_detected, categorie, statut,
                   contenu, config, properties, envRead, jsonParsed, prompts,
                   requests, resp>>

\* create_nash_page returned: main ends, exit status 0
MainReturn ==
    /\ pc = "return"
    /\ Exit(0)
    /\ UNCHANGED <<argv, env, title, source, type_detected, categorie, statut,
                   contenu, config, properties, envRead, jsonParsed, prompts,
                   requests, resp, output, returned>>

-----------------------------------------------------------------------------
(* The program *)

Next ==
    \/ MainJsonArg
    \/ MainInteractive
    \/ AskTitle
    \/ AskSource
    \/ AskType
    \/ AskCategorie
    \/ AskStatut
    \/ AskContenu
    \/ LoadEnv
    \/ SendRequest
    \/ SendRequestFails
    \/ HandleResponse
    \/ MainReturn

Spec == Init /\ [][Next]_vars

-----------------------------------------------------------------------------
(* The field mapper on its own: every combination of the six arguments *)

InitBP ==
    /\ pc = "build"
    /\ argv = <<>>
    /\ env = [NOTION_TOKEN |-> None, NOTION_DATABASE_ID |-> None]
    /\ title \in NameValues
    /\ source \in NameValues
    /\ type_detected \in FieldValues
    /\ categorie \in FieldValues
    /\ statut \in FieldValues
    /\ contenu \in FieldValues
    /\ config = <<None, None>>
    /\ properties = NoProperties
    /\ envRead = FALSE
    /\ jsonParsed = FALSE
    /\ prompts = 0
    /\ requests = <<>>
    /\ resp = NoResponse
    /\ output = <<>>
    /\ returned = None
    /\ unhandled = FALSE
    /\ exitCode = Running

CallBuildProperties ==
    /\ pc = "build"
    /\ properties' = build_properties(title, source, type_detected, categorie,
                                      statut, contenu)
    /\ pc' = "built"
    /\ UNCHANGED <<argv, env, title, source, type_detected, categorie, statut,
                   contenu, config, envRead, jsonParsed, prompts, requests,
                   resp, output, returned, unhandled, exitCode>>

NextBP == CallBuildProperties

SpecBP == InitBP /\ [][NextBP]_vars

-----------------------------------------------------------------------------
(* Properties of the field mapper, checked under SpecBP *)

Built == pc = "built"
Columns == DOMAIN properties
AllKeys == {TitleKey, TypeKey, CategorieKey, StatutKey, ContenuKey}
AllSixPresent ==
    /\ Truthy(title) /\ Truthy(source) /\ Truthy(type_detected)
    /\ Truthy(categorie) /\ Truthy(statut) /\ Truthy(contenu)
HasColumn(k, type, v) ==
    k \in Columns /\ properties[k] = [type |-> type, value |-> v[1]]
ValueAppears(v) == \E k \in Columns : properties[k].value = v[1]

\* C1: whatever title and source are (None, "" or a non-empty string), the
\* mapping has the title column 'Source'; its text is not empty and is the
\* title if that is non-empty, else the source if that is non-empty, else
\* "Sans titre".
C1_TitleDefaulting ==
    Built =>
        /\ TitleKey \in Columns
        /\ properties[TitleKey].type = "title"
        /\ properties[TitleKey].value # <<>>
        /\ properties[TitleKey].value =
              IF Truthy(title) THEN title[1]
              ELSE IF Truthy(source) THEN source[1]
              ELSE SansTitre

C1_Witness ==
    /\ Built
    /\ title = Some(<<>>)
    /\ source = Some(Mail)
    /\ properties[TitleKey].value = Mail

\* C3 as stated: each of the five non-title inputs (source included) that is
\* non-empty appears in the mapping with its value, and with all six inputs
\* non-empty the mapping is the title column holding the title plus five
\* further columns.
C3_Original ==
    Built =>
        /\ Truthy(source) => ValueAppears(source)
        /\ Truthy(type_detected) => HasColumn(TypeKey, "select", type_detected)
        /\ Truthy(categorie) => HasColumn(CategorieKey, "select", categorie)
        /\ Truthy(statut) => HasColumn(StatutKey, "select", statut)
        /\ Truthy(contenu) => HasColumn(ContenuKey, "rich_text", contenu)
        /\ AllSixPresent =>
              /\ HasColumn(TitleKey, "title", title)
              /\ Cardinality(Columns \ {TitleKey}) = 5

\* C3 amended: each of type_detected, categorie, statut and contenu that is
\* non-empty has its column, holding exactly the given value; source has no
\* column of its own; with all six inputs non-empty the mapping is the title
\* column holding the title plus exactly those four columns.
C3_PresentFields ==
    Built =>
        /\ Truthy(type_detected) => HasColumn(TypeKey, "select", type_detected)
        /\ Truthy(categorie) => HasColumn(CategorieKey, "select", categorie)
        /\ Truthy(statut) => HasColumn(StatutKey, "select", statut)
        /\ Truthy(contenu) => HasColumn(ContenuKey, "rich_text", contenu)
        /\ Columns \subseteq AllKeys
        /\ AllSixPresent =>
              /\ HasColumn(TitleKey, "title", title)
              /\ Columns = AllKeys

C3_Witness ==
    /\ Built
    /\ AllSixPresent
    /\ title # source
    /\ Cardinality(Columns) = 5
    /\ ~ValueAppears(source)

\* C4: a non-title column is in the mapping only if its input is non-empty
\* (neither None nor ""), no column carries an empty value, and with all six
\* inputs absent the mapping is the title column alone.
C4_AbsentOmitted ==
    Built =>
        /\ TypeKey \in Columns => Truthy(type_detected)
        /\ CategorieKey \in Columns => Truthy(categorie)
        /\ StatutKey \in Columns => Truthy(statut)
        /\ ContenuKey \in Columns => Truthy(contenu)
        /\ \A k \in Columns : properties[k].value # <<>>
        /\ (/\ title = None /\ source = None /\ type_detected = None
            /\ categorie = None /\ statut = None /\ contenu = None)
              => Columns = {TitleKey}

C4_Witness ==
    /\ Built
    /\ type_detected = Some(<<>>)
    /\ categorie = None
    /\ Truthy(statut)
    /\ contenu = Some(<<>>)
    /\ Columns = {TitleKey, StatutKey}

-----------------------------------------------------------------------------
(* Properties of a run, checked under Spec *)

Done == pc = "done"
OneArgument == Len(argv) = 1
Posted == requests # <<>>
Answered == resp # NoResponse
Is2xx(status) == status \in 200..299
PrintedWith(m, a) ==
    \E i \in 1..Len(output) : output[i].msg = m /\ output[i].arg = a

\* C2 as stated: with one argument that is a JSON object whose title is
\* absent or empty and whose source is a non-empty string, the title column
\* of the request body holds the source.
C2_Original ==
    (/\ OneArgument
     /\ argv[1].kind = "object"
     /\ ~Truthy(argv[1].obj.title)
     /\ Truthy(argv[1].obj.source)
     /\ Posted)
        => requests[1].json.properties[TitleKey].value = argv[1].obj.source[1]

\* C5: with exactly one argument that is not valid JSON the run goes from
\* main straight to its exit: usage example printed, exit code 1, the
\* configuration never read and no POST issued.
C5_MalformedArgument ==
    (OneArgument /\ argv[1].kind = "invalid") =>
        /\ pc \in {"main", "done"}
        /\ ~envRead
        /\ ~Posted
        /\ Done => /\ exitCode = 1
                   /\ ~unhandled
                   /\ output = <<UsageLine>>

C5_Witness ==
    /\ OneArgument
    /\ argv[1].kind = "invalid"
    /\ ~ConfigMissing(env)
    /\ Done
    /\ exitCode = 1
    /\ Printed("usage")

\* C6 as stated: with NOTION_TOKEN or NOTION_DATABASE_ID missing or empty, in
\* both modes and for every input, the process prints the guidance and ends
\* with exit code 1, and never issues the POST.
C6_Original ==
    ConfigMissing(env) =>
        /\ ~Posted
        /\ Done => (exitCode = 1 /\ Printed("env_guidance"))

\* C7: a response whose status is outside 200..299 gets the status code and
\* the parsed body (the raw text when the body does not parse) printed and
\* exit code 1, with no unhandled exception; there is never a second request.
C7_FailureResponse ==
    /\ Len(requests) <= 1
    /\ (Answered /\ ~Is2xx(resp.status_code)) =>
          /\ pc \in {"response", "done"}
          /\ Len(requests) = 1
          /\ Done =>
                /\ exitCode = 1
                /\ ~unhandled
                /\ PrintedWith("http_code", resp.status_code)
                /\ IF resp.body.kind = "text"
                   THEN PrintedWith("raw", resp.body)
                   ELSE PrintedWith("details", resp.body)

C7_Witness ==
    /\ Done
    /\ Answered
    /\ resp.status_code = 401
    /\ resp.body.kind = "text"
    /\ PrintedWith("raw", resp.body)
    /\ exitCode = 1
    /\ ~unhandled

\* C8 as stated: a response whose status is in 200..299 gets its body
\* parsed, the confirmation with the body's id (or "inconnu") printed, the
\* parsed body returned to main, and exit code 0.
C8_Original ==
    (Done /\ Answered /\ Is2xx(resp.status_code)) =>
        /\ exitCode = 0
        /\ ~unhandled
        /\ PrintedWith("created", PageId(resp.body))
        /\ returned = Some(resp.body)

\* C9 as stated: the prompts are entered only when no argument is supplied,
\* and a supplied argument is always parsed as JSON.
C9_Original ==
    /\ (prompts > 0 \/ Printed("interactive")) => Len(argv) = 0
    /\ (Len(argv) >= 1 /\ pc # "main") => jsonParsed

\* C10 as stated: the two secrets are loaded and validated before any input
\* is acquired; with a secret missing or empty the process exits before it
\* parses the JSON argument and before it issues a prompt.
C10_Original ==
    /\ (jsonParsed \/ prompts > 0) => envRead
    /\ ConfigMissing(env) => (~jsonParsed /\ prompts = 0)

====
